---- MODULE Spec2Model ----
(***************************************************************************)
(* Document forgery detection backend: the POST /verify pipeline           *)
(* (routes/documentRoutes.js -> controllers/documentController.js ->       *)
(* services/imageService.js), the /add-genuine route and the genuine       *)
(* directory they share.                                                   *)
(*                                                                         *)
(* Strings are sequences of one-character strings, so that toLowerCase,    *)
(* includes, path.extname, path.basename and the extension regex are       *)
(* computed character by character.  Numbers that JavaScript computes in   *)
(* floating point are exact rationals [n |-> numerator, d |-> denominator];*)
(* 0/0 is NaN and every ordered comparison with it is false, as in IEEE.   *)
(***************************************************************************)
EXTENDS Integers, Sequences, FiniteSets, TLC

----------------------------------------------------------------------------
(* Bounds of the model *)

\* cells of the luminance grid a decoded image is resized to (8 x 8 in the code)
GridCells == 2
\* largest file size in bytes
MaxSize == 2
\* largest number of files /add-genuine puts in the genuine directory
MaxCorpus == 2
\* largest byte size tried on the size-similarity expression alone
MaxProbeSize == 9

\* luminance values of a grid cell (0..255 in the code)
Luma == {0, 1}

----------------------------------------------------------------------------
(* String constants of the code *)

Str_genuine == <<"g","e","n","u","i","n","e">>
Str_original == <<"o","r","i","g","i","n","a","l">>
Str_authentic == <<"a","u","t","h","e","n","t","i","c">>
Str_fraud == <<"f","r","a","u","d">>
Str_fake == <<"f","a","k","e">>
Str_forged == <<"f","o","r","g","e","d">>
Str_forg == <<"f","o","r","g">>
Str_CopyPaste_Inter == <<"C","o","p","y","P","a","s","t","e","_","I","n","t","e","r">>
Str_CopyPaste_Intra == <<"C","o","p","y","P","a","s","t","e","_","I","n","t","r","a">>
Str_Imitation == <<"I","m","i","t","a","t","i","o","n">>
Ext_jpg == <<".","j","p","g">>
Ext_jpeg == <<".","j","p","e","g">>
Ext_png == <<".","p","n","g">>
Ext_tif == <<".","t","i","f">>
Ext_tiff == <<".","t","i","f","f">>
Ext_bmp == <<".","b","m","p">>
Ext_unknown == <<".","u","n","k","n","o","w","n">>
\* the multipart field name, upload.single("document")
Str_document == <<"d","o","c","u","m","e","n","t">>
\* path.join(__dirname, "..", "uploads") of one deployment
Dir_uploads == <<"/","a","p","p","/","s","r","c","/","u","p","l","o","a","d","s">>

----------------------------------------------------------------------------
(* Inputs *)

\* Date.now() + "-" + Math.round(Math.random() * 1e9), one value of it
Suffix_1_2 == <<"1","-","2">>

Name_invoice123_png == <<"i","n","v","o","i","c","e","1","2","3",".","p","n","g">>
Name_random_png == <<"r","a","n","d","o","m",".","p","n","g">>
Name_document_genuine_png == <<"d","o","c","u","m","e","n","t","_","g","e","n","u","i","n","e",".","p","n","g">>
Name_Fake_Original_png == <<"F","a","k","e","_","O","r","i","g","i","n","a","l",".","p","n","g">>
Name_forgery_png == <<"f","o","r","g","e","r","y",".","p","n","g">>
Name_genuine_pdf == <<"g","e","n","u","i","n","e",".","p","d","f">>
Name_original_Imitation == <<"o","r","i","g","i","n","a","l",".","I","m","i","t","a","t","i","o","n">>
Name_INVOICE123_JPG == <<"I","N","V","O","I","C","E","1","2","3",".","J","P","G">>
Name_document_1_2_png == <<"d","o","c","u","m","e","n","t","-","1","-","2",".","p","n","g">>

\* original names of the files posted to /verify
UploadNames ==
  { Name_invoice123_png, Name_random_png, Name_document_genuine_png,
    Name_Fake_Original_png, Name_forgery_png, Name_genuine_pdf,
    Name_original_Imitation }

\* original names of the files posted to /add-genuine
ReferenceNames == { Name_INVOICE123_JPG, Name_document_1_2_png }

\* A file's content: the luminance grid it decodes to (<<>> when it does not
\* decode) and its size in bytes.  A file that decodes is not empty.
Images ==
  [pixels : [1..GridCells -> Luma], size : 1..MaxSize]
    \cup [pixels : {<<>>}, size : {0}]

\* the contents posted to /verify: files of at most one byte
UploadImages == {img \in Images : img.size <= 1}

\* the contents posted to /add-genuine: grids with one bright cell, and a
\* file that does not decode
ReferenceImages ==
  {img \in Images :
     Cardinality({i \in 1..Len(img.pixels) : img.pixels[i] = 1}) <= 1
       /\ (img.pixels # <<>> => \E i \in 1..Len(img.pixels) : img.pixels[i] = 1)}

----------------------------------------------------------------------------
(* Strings *)

UpperCase == <<"A","B","C","D","E","F","G","H","I","J","K","L","M",
               "N","O","P","Q","R","S","T","U","V","W","X","Y","Z">>
LowerCase == <<"a","b","c","d","e","f","g","h","i","j","k","l","m",
               "n","o","p","q","r","s","t","u","v","w","x","y","z">>

LowerChar(c) ==
  IF \E i \in 1..26 : UpperCase[i] = c
    THEN LowerCase[CHOOSE i \in 1..26 : UpperCase[i] = c]
    ELSE c

\* String.prototype.toLowerCase
ToLowerCase(s) == [i \in 1..Len(s) |-> LowerChar(s[i])]

\* String.prototype.includes
Includes(s, sub) ==
  \E i \in 1..(Len(s) - Len(sub) + 1) : SubSeq(s, i, i + Len(sub) - 1) = sub

EndsWith(s, suffix) ==
  /\ Len(suffix) <= Len(s)
  /\ SubSeq(s, Len(s) - Len(suffix) + 1, Len(s)) = suffix

\* the last component of a path
LastComponent(p) ==
  LET slashes == {i \in 1..Len(p) : p[i] = "/"}
      start == IF slashes = {} THEN 1
               ELSE (CHOOSE i \in slashes : \A j \in slashes : j <= i) + 1
  IN SubSeq(p, start, Len(p))

\* path.extname: from the last "." of the last component, "" when there is
\* none or when it is the component's first character
ExtName(p) ==
  LET b == LastComponent(p)
      dots == {i \in 1..Len(b) : b[i] = "."}
      last == CHOOSE i \in dots : \A j \in dots : j <= i
  IN IF dots = {} THEN <<>>
     ELSE IF last = 1 THEN <<>>
     ELSE SubSeq(b, last, Len(b))

\* path.basename(p, ext)
BaseName(p, ext) ==
  LET b == LastComponent(p)
  IN IF ext # <<>> /\ Len(ext) < Len(b) /\ EndsWith(b, ext)
       THEN SubSeq(b, 1, Len(b) - Len(ext))
       ELSE b

\* path.join(dir, name)
PathJoin(dir, name) == dir \o <<"/">> \o name

\* /\.(jpg|jpeg|png|tif|tiff|bmp)$/i.test(file)
IsImageFileName(file) ==
  \E e \in {Ext_jpg, Ext_jpeg, Ext_png, Ext_tif, Ext_tiff, Ext_bmp} :
    EndsWith(ToLowerCase(file), e)

\* path.basename(f, path.extname(f)).toLowerCase()
LowerBaseName(f) == ToLowerCase(BaseName(f, ExtName(f)))

----------------------------------------------------------------------------
(* Numbers *)

Rat(n, d) == [n |-> n, d |-> d]
Num(k) == Rat(k, 1)
IsNaN(x) == x.d = 0

\* x < y, x >= y, x > y, x === y on numbers: false when either is NaN
NumLt(x, y) == ~IsNaN(x) /\ ~IsNaN(y) /\ x.n * y.d < y.n * x.d
NumGe(x, y) == ~IsNaN(x) /\ ~IsNaN(y) /\ x.n * y.d >= y.n * x.d
NumGt(x, y) == ~IsNaN(x) /\ ~IsNaN(y) /\ x.n * y.d > y.n * x.d
NumEq(x, y) == ~IsNaN(x) /\ ~IsNaN(y) /\ x.n * y.d = y.n * x.d

Abs(k) == IF k < 0 THEN -k ELSE k
Max(a, b) == IF a >= b THEN a ELSE b

----------------------------------------------------------------------------
(* services/imageService.js *)

Null == <<>>

Decodable(img) == img.pixels # <<>>

RECURSIVE SumSeq(_, _)
SumSeq(s, i) == IF i = 0 THEN 0 ELSE s[i] + SumSeq(s, i - 1)

\* calculateImageHash on an image that decodes: bit i is 1 when cell i is
\* brighter than the average of the grid (p > sum / length)
calculateImageHash(img) ==
  LET pixels == img.pixels
      total == SumSeq(pixels, Len(pixels))
  IN [i \in 1..Len(pixels) |-> IF pixels[i] * Len(pixels) > total THEN 1 ELSE 0]

calculateSimilarity_noDivision(hash1, hash2) ==
  LET similar == Cardinality({i \in 1..Len(hash1) : hash1[i] = hash2[i]})
  IN Rat(similar * 100, 1)

\* calculateSimilarity: (similar / hash1.length) * 100
calculateSimilarity(hash1, hash2) ==
  LET similar == Cardinality({i \in 1..Len(hash1) : hash1[i] = hash2[i]})
  IN Rat(similar * 100, Len(hash1))

\* (1 - Math.abs(a - b) / Math.max(a, b)) * 100
sizeSimilarity(uploadedFileSize, bestMatchFileSize) ==
  LET m == Max(uploadedFileSize, bestMatchFileSize)
  IN Rat((m - Abs(uploadedFileSize - bestMatchFileSize)) * 100, m)

\* (bestMatchSimilarity * 0.7) + (sizeSimilarity * 0.3)
finalSimilarity(hashSim, sizeSim) ==
  Rat(7 * hashSim.n * sizeSim.d + 3 * sizeSim.n * hashSim.d,
      10 * hashSim.d * sizeSim.d)

\* const isForged = finalSimilarity < 80
rawIsForged(sim) == NumLt(sim, Num(80))

\* a value compareImages returns; error is the exception its catch block
\* reports in details.reason ("none" when it caught nothing)
Result(isForged, similarity, bestMatch, reason) ==
  [kind |-> "result", isForged |-> isForged, similarity |-> similarity,
   bestMatch |-> bestMatch, reason |-> reason, error |-> "none"]

NoResult == [kind |-> "none", error |-> "none"]

\* compareImages rejects with the exception
Thrown(error) == [kind |-> "throw", error |-> error]

defaultResult == Result(TRUE, Num(0), Null, "default")

\* the catch block of compareImages
errorResult(error) ==
  [Result(TRUE, Num(0), Null, "error") EXCEPT !.error = error]

\* the path test of compareImages
PathInFraudDirectory(uploadedImagePath) ==
  \/ Includes(uploadedImagePath, Str_CopyPaste_Inter)
  \/ Includes(uploadedImagePath, Str_CopyPaste_Intra)
  \/ Includes(uploadedImagePath, Str_Imitation)

\* the keyword test of compareImages, on the base name of the stored path
BaseNameHasFraudKeyword(uploadedBaseName) ==
  \/ Includes(uploadedBaseName, Str_fraud)
  \/ Includes(uploadedBaseName, Str_fake)
  \/ Includes(uploadedBaseName, Str_forg)

\* fs.readdirSync(dir).filter(regex): the names, in directory order
RECURSIVE getImageFilesInDirectory(_)
getImageFilesInDirectory(d) ==
  IF d = <<>> THEN <<>>
  ELSE IF IsImageFileName(Head(d).name)
    THEN <<Head(d).name>> \o getImageFilesInDirectory(Tail(d))
    ELSE getImageFilesInDirectory(Tail(d))

\* the first genuine file whose lower-cased base name is the upload's
RECURSIVE ExactMatch(_, _)
ExactMatch(genuineFiles, uploadedBaseName) ==
  IF genuineFiles = <<>> THEN Null
  ELSE IF LowerBaseName(Head(genuineFiles)) = uploadedBaseName
    THEN Head(genuineFiles)
    ELSE ExactMatch(Tail(genuineFiles), uploadedBaseName)

\* compareImages up to its first await: a result when it returns there,
\* NoResult when it goes on to hash the images
compareStart(uploadedImagePath, d) ==
  LET genuineFiles == getImageFilesInDirectory(d)
      uploadedBaseName == LowerBaseName(uploadedImagePath)
      exact == ExactMatch(genuineFiles, uploadedBaseName)
  IN IF genuineFiles = <<>> THEN defaultResult
     ELSE IF PathInFraudDirectory(uploadedImagePath)
       THEN Result(TRUE, Num(0), Null, "directory")
     ELSE IF exact # Null THEN Result(FALSE, Num(100), exact, "exact")
     ELSE IF BaseNameHasFraudKeyword(uploadedBaseName)
       THEN Result(TRUE, Num(0), Null, "keyword")
     ELSE NoResult

ContentOf(d, name) == (CHOOSE i \in 1..Len(d) : d[i].name = name)

\* the loop over genuineFiles: best = [sim, file], replaced on a strictly
\* greater similarity
RECURSIVE bestMatchLoop(_, _, _, _)
bestMatchLoop(uploadedHash, genuineFiles, d, best) ==
  IF genuineFiles = <<>> THEN best
  ELSE LET genuineFile == Head(genuineFiles)
           genuineHash == calculateImageHash(d[ContentOf(d, genuineFile)].img)
           similarity == calculateSimilarity(uploadedHash, genuineHash)
       IN bestMatchLoop(uploadedHash, Tail(genuineFiles), d,
            IF NumGt(similarity, best.sim)
              THEN [sim |-> similarity, file |-> genuineFile]
              ELSE best)

onCompareError_rethrow(error) == Thrown(error)

\* what compareImages does with an exception: its catch block returns
onCompareError(error) == errorResult(error)

\* compareImages from the hashing on.  sharp throws on a file that does not
\* decode, path.join throws on a null bestMatchFile, statOk is whether both
\* fs.statSync calls succeed.
comparePixels(uploadImg, genuineFiles, d, statOk) ==
  IF \/ ~Decodable(uploadImg)
     \/ \E i \in 1..Len(genuineFiles) :
          ~Decodable(d[ContentOf(d, genuineFiles[i])].img)
    THEN onCompareError("decode")
  ELSE
    LET best == bestMatchLoop(calculateImageHash(uploadImg), genuineFiles, d,
                              [sim |-> Num(0), file |-> Null])
    IN IF best.file = Null THEN onCompareError("path_join_null")
       ELSE IF ~statOk THEN onCompareError("stat")
       ELSE
         LET sizeSim == sizeSimilarity(uploadImg.size,
                                       d[ContentOf(d, best.file)].img.size)
             final == finalSimilarity(best.sim, sizeSim)
         IN Result(rawIsForged(final), final, best.file,
                   IF rawIsForged(final) THEN "below" ELSE "high")

----------------------------------------------------------------------------
(* The variant of compareImages that compares with looks-same *)

\* the values Math.floor(Math.random() * 31) takes in the model, out of 0..30
RandomFloors == {0, 30}

\* calculateSimpleSimilarity: Math.floor(Math.random() * 31) + 40
calculateSimpleSimilarity(randomFloor) == randomFloor + 40

\* comparison.equal of looksSame: the two files decode to the same grid; an
\* error of looksSame (a file that does not decode) resolves to equal: false
looksSameEqual(img1, img2) ==
  Decodable(img1) /\ Decodable(img2) /\ img1.pixels = img2.pixels

\* the loop over genuineImages; randomFloors[i] is the value Math.random gives
\* when the i-th comparison asks for one
RECURSIVE looksSameLoop(_, _, _, _, _, _)
looksSameLoop(uploadImg, genuineImages, d, randomFloors, i, best) ==
  IF i > Len(genuineImages) THEN best
  ELSE LET genuineImage == genuineImages[i]
           equal == looksSameEqual(uploadImg, d[ContentOf(d, genuineImage)].img)
           similarity == IF equal THEN 100
                         ELSE calculateSimpleSimilarity(randomFloors[i])
       IN looksSameLoop(uploadImg, genuineImages, d, randomFloors, i + 1,
            IF similarity > best.sim
              THEN [sim |-> similarity, file |-> genuineImage]
              ELSE best)

\* compareImages of the variant: isForged = highestSimilarity < 80
compareImagesLooksSame(uploadImg, d, randomFloors) ==
  LET genuineImages == getImageFilesInDirectory(d)
      best == looksSameLoop(uploadImg, genuineImages, d, randomFloors, 1,
                            [sim |-> 0, file |-> Null])
  IN IF genuineImages = <<>>
       THEN Result(TRUE, Num(0), Null, "no_genuine_images")
       ELSE Result(best.sim < 80, Num(best.sim), best.file, "comparisons")

----------------------------------------------------------------------------
(* controllers/documentController.js: the decisions of verifyDocument *)

\* const similarityThreshold = 85
similarityThreshold == 85

isGenuineHint(originalname) ==
  LET uploadedFileName == ToLowerCase(originalname)
  IN \/ Includes(uploadedFileName, Str_genuine)
     \/ Includes(uploadedFileName, Str_original)
     \/ Includes(uploadedFileName, Str_authentic)

isFraudHint(originalname) ==
  LET uploadedFileName == ToLowerCase(originalname)
  IN \/ Includes(uploadedFileName, Str_fraud)
     \/ Includes(uploadedFileName, Str_fake)
     \/ Includes(uploadedFileName, Str_forged)

isFraudPath_withoutImitation(uploadedFilePath) ==
  \/ Includes(uploadedFilePath, Str_CopyPaste_Inter)
  \/ Includes(uploadedFilePath, Str_CopyPaste_Intra)

isFraudPath(uploadedFilePath) ==
  \/ Includes(uploadedFilePath, Str_CopyPaste_Inter)
  \/ Includes(uploadedFilePath, Str_CopyPaste_Intra)
  \/ Includes(uploadedFilePath, Str_Imitation)

Hints(f) ==
  [genuine |-> isGenuineHint(f.originalname),
   fraud |-> isFraudHint(f.originalname),
   fraudPath |-> isFraudPath(f.path)]

NoHints == [genuine |-> FALSE, fraud |-> FALSE, fraudPath |-> FALSE]

firstReferenceEligible_ignoringPath(h) == h.genuine /\ ~h.fraud

\* isGenuineHint && !isFraudHint && !isFraudPath
firstReferenceEligible(h) == h.genuine /\ ~h.fraud /\ ~h.fraudPath

finalIsGenuine_strictThreshold(result, h) ==
  /\ NumGt(result.similarity, Num(similarityThreshold)) \/ h.genuine
  /\ ~(h.fraud \/ h.fraudPath)
  /\ ~result.isForged

finalIsGenuine_withoutComparisonFlag(result, h) ==
  /\ NumGe(result.similarity, Num(similarityThreshold)) \/ h.genuine
  /\ ~(h.fraud \/ h.fraudPath)

\* finalIsGenuine of the comparison branch
finalIsGenuine(result, h) ==
  /\ NumGe(result.similarity, Num(similarityThreshold)) \/ h.genuine
  /\ ~(h.fraud \/ h.fraudPath)
  /\ ~result.isForged

Verdict(isGenuine, similarity, bestMatch, reason) ==
  [kind |-> "verdict", isGenuine |-> isGenuine, similarity |-> similarity,
   bestMatch |-> bestMatch, reason |-> reason]

NoVerdict == [kind |-> "none"]

\* the bodies of the three status-200 answers
addedAsReferenceVerdict == Verdict(TRUE, Num(100), Null, "added_as_reference")
noReferencesVerdict(h) ==
  Verdict(firstReferenceEligible(h), Num(0), Null, "no_references")
comparisonVerdict(result, h) ==
  Verdict(finalIsGenuine(result, h), result.similarity, result.bestMatch,
          result.reason)

\* fs.copyFileSync into the genuine directory, and multer's disk storage of
\* /add-genuine: a file of that name is replaced, a new one is added
WriteFile(d, name, img) ==
  IF \E i \in 1..Len(d) : d[i].name = name
    THEN [i \in 1..Len(d) |->
            IF d[i].name = name THEN [name |-> name, img |-> img] ELSE d[i]]
    ELSE Append(d, [name |-> name, img |-> img])

----------------------------------------------------------------------------
(* routes/documentRoutes.js: multer storage *)

\* storage.filename: fieldname + "-" + uniqueSuffix + ext
storageFilename(originalname, uniqueSuffix) ==
  LET ext == IF ExtName(originalname) = <<>> THEN Ext_unknown
             ELSE ExtName(originalname)
  IN Str_document \o <<"-">> \o uniqueSuffix \o ext

\* req.file of an upload stored by multer
ReqFile(originalname, uniqueSuffix, img) ==
  [present |-> TRUE, originalname |-> originalname,
   filename |-> storageFilename(originalname, uniqueSuffix),
   path |-> PathJoin(Dir_uploads, storageFilename(originalname, uniqueSuffix)),
   img |-> img]

\* a request with no file part: req.file is undefined
NoFile ==
  [present |-> FALSE, originalname |-> <<>>, filename |-> <<>>, path |-> <<>>,
   img |-> [pixels |-> <<>>, size |-> 0]]

----------------------------------------------------------------------------
(* State *)

VARIABLES
  dir,             \* the genuine directory: files [name, img] in readdir order
  pc,              \* where the POST /verify request is
  file,            \* req.file
  uploadTimeout,   \* the route's timer: "off", "armed", "fired", "cleared"
  responseTimeout, \* verifyDocument's timer, likewise
  responseWasSent, \* verifyDocument's flag
  hints,           \* isGenuineHint, isFraudHint, isFraudPath
  genuineFiles,    \* the listing compareImages took
  result,          \* what compareImages returned
  verdict,         \* the body of the status-200 answer verifyDocument built
  resCalls,        \* the res.status(..).json(..) calls of the request, in order
  caught,          \* the outer catch block of verifyDocument was entered
  copyError,       \* the catch block around fs.copyFileSync was entered
  probe,           \* inputs and output of the size expression taken alone
  looksSameRun     \* the calls made of the looks-same variant of compareImages

vars ==
  <<dir, pc, file, uploadTimeout, responseTimeout, responseWasSent, hints,
    genuineFiles, result, verdict, resCalls, caught, copyError, probe,
    looksSameRun>>

NoProbe == [a |-> 0, b |-> 0, done |-> FALSE, out |-> Num(0)]

\* no call of the looks-same variant was made
NoRun == [calls |-> 0, first |-> NoResult, second |-> NoResult]

Init ==
  /\ dir = <<>>
  /\ pc = "idle"
  /\ file = NoFile
  /\ uploadTimeout = "off"
  /\ responseTimeout = "off"
  /\ responseWasSent = FALSE
  /\ hints = NoHints
  /\ genuineFiles = <<>>
  /\ result = NoResult
  /\ verdict = NoVerdict
  /\ resCalls = <<>>
  /\ caught = FALSE
  /\ copyError = FALSE
  /\ probe = NoProbe
  /\ looksSameRun = NoRun

headersSent == resCalls # <<>>

\* res.status(status).json(body): sent when nothing was sent before; express
\* throws on a second one
Call(status, body) ==
  Append(resCalls, [status |-> status, body |-> body, sent |-> ~headersSent])

clearTimeout(t) == IF t = "armed" THEN "cleared" ELSE t

----------------------------------------------------------------------------
(* POST /verify *)

\* router.post("/verify"): the request arrives, the upload timer is set and
\* multer starts reading the body
ReceiveRequest ==
  /\ pc = "idle"
  /\ pc' = "uploading"
  /\ uploadTimeout' = "armed"
  /\ UNCHANGED <<dir, file, responseTimeout, responseWasSent, hints,
                 genuineFiles, result, verdict, resCalls, caught, copyError, probe, looksSameRun>>

\* the request is over: its req, res and the locals of its handlers are gone
RequestEnds ==
  /\ pc = "done"
  /\ pc' = "idle"
  /\ file' = NoFile
  /\ uploadTimeout' = "off"
  /\ responseTimeout' = "off"
  /\ responseWasSent' = FALSE
  /\ hints' = NoHints
  /\ genuineFiles' = <<>>
  /\ result' = NoResult
  /\ verdict' = NoVerdict
  /\ resCalls' = <<>>
  /\ caught' = FALSE
  /\ copyError' = FALSE
  /\ UNCHANGED <<dir, probe, looksSameRun>>

\* the callback of uploadTimeout: 408
UploadTimeoutFires ==
  /\ pc = "uploading"
  /\ uploadTimeout = "armed"
  /\ uploadTimeout' = "fired"
  /\ resCalls' = Call(408, "upload_timeout")
  /\ UNCHANGED <<dir, pc, file, responseTimeout, responseWasSent, hints,
                 genuineFiles, result, verdict, caught, copyError, probe, looksSameRun>>

\* the upload callback with an error: a MulterError (file over the limit)
\* answers 400, any other error 500
UploadFails ==
  /\ pc = "uploading"
  /\ uploadTimeout' = clearTimeout(uploadTimeout)
  /\ \/ resCalls' = Call(400, "multer_error")
     \/ resCalls' = Call(500, "unknown_upload_error")
  /\ pc' = "done"
  /\ UNCHANGED <<dir, file, responseTimeout, responseWasSent, hints,
                 genuineFiles, result, verdict, caught, copyError, probe, looksSameRun>>

\* the upload callback without error, the request had no file part:
\* verifyDocument with no req.file answers 400
VerifyNoFile ==
  /\ pc = "uploading"
  /\ uploadTimeout' = clearTimeout(uploadTimeout)
  /\ responseTimeout' = "cleared"
  /\ responseWasSent' = TRUE
  /\ resCalls' = Call(400, "no_file")
  /\ caught' = headersSent
  /\ pc' = "done"
  /\ UNCHANGED <<dir, file, hints, genuineFiles, result, verdict,
                 copyError, probe, looksSameRun>>

\* the upload callback without error, multer stored the file: verifyDocument
\* with an empty listing of the genuine directory.  copyOk is whether fs.copyFileSync succeeds.
VerifyNoReferences ==
  /\ pc = "uploading"
  /\ getImageFilesInDirectory(dir) = <<>>
  /\ uploadTimeout' = clearTimeout(uploadTimeout)
  /\ \E originalname \in UploadNames, img \in UploadImages, copyOk \in BOOLEAN :
       LET f == ReqFile(originalname, Suffix_1_2, img)
       IN /\ file' = f
          /\ hints' = Hints(f)
          /\ copyError' = (firstReferenceEligible(Hints(f)) /\ ~copyOk)
          /\ IF firstReferenceEligible(Hints(f)) /\ copyOk
               THEN /\ dir' = WriteFile(dir, f.originalname, f.img)
                    /\ verdict' = addedAsReferenceVerdict
               ELSE /\ dir' = dir
                    /\ verdict' = noReferencesVerdict(Hints(f))
  /\ responseTimeout' = "cleared"
  /\ responseWasSent' = TRUE
  /\ resCalls' = Call(200, "verdict")
  /\ caught' = headersSent
  /\ pc' = "done"
  /\ UNCHANGED <<genuineFiles, result, probe, looksSameRun>>

\* the upload callback without error, verifyDocument with references: it
\* awaits fs.promises.access
VerifyStart ==
  /\ pc = "uploading"
  /\ getImageFilesInDirectory(dir) # <<>>
  /\ uploadTimeout' = clearTimeout(uploadTimeout)
  /\ responseTimeout' = "armed"
  /\ \E originalname \in UploadNames, img \in UploadImages :
       /\ file' = ReqFile(originalname, Suffix_1_2, img)
       /\ hints' = Hints(ReqFile(originalname, Suffix_1_2, img))
  /\ pc' = "access"
  /\ UNCHANGED <<dir, responseWasSent, genuineFiles, result, verdict,
                 resCalls, caught, copyError, probe, looksSameRun>>

\* the callback of responseTimeout: 500 with fallback
ResponseTimeoutFires ==
  /\ pc \in {"access", "hashing"}
  /\ responseTimeout = "armed"
  /\ responseTimeout' = "fired"
  /\ IF ~responseWasSent
       THEN /\ responseWasSent' = TRUE
            /\ resCalls' = Call(500, "timed_out")
       ELSE UNCHANGED <<responseWasSent, resCalls>>
  /\ UNCHANGED <<dir, pc, file, uploadTimeout, hints, genuineFiles,
                 result, verdict, caught, copyError, probe, looksSameRun>>

\* fs.promises.access rejects: 500, without a look at responseWasSent
AccessFails ==
  /\ pc = "access"
  /\ responseTimeout' = clearTimeout(responseTimeout)
  /\ responseWasSent' = TRUE
  /\ resCalls' = Call(500, "cannot_access")
  /\ caught' = headersSent
  /\ pc' = "done"
  /\ UNCHANGED <<dir, file, uploadTimeout, hints, genuineFiles,
                 result, verdict, copyError, probe, looksSameRun>>

\* verifyDocument after "const result = await compareImages(..)": the answer
\* of the comparison branch, built only when nothing was answered before
Answer(r) ==
  /\ result' = r
  /\ responseTimeout' = clearTimeout(responseTimeout)
  /\ pc' = "done"
  /\ IF ~responseWasSent
       THEN /\ responseWasSent' = TRUE
            /\ verdict' = comparisonVerdict(r, hints)
            /\ resCalls' = Call(200, "verdict")
            /\ caught' = headersSent
       ELSE UNCHANGED <<responseWasSent, verdict, resCalls, caught>>

\* compareImages threw: the outer catch block of verifyDocument
Catch(r) ==
  /\ result' = r
  /\ caught' = TRUE
  /\ pc' = "done"
  /\ IF ~responseWasSent
       THEN /\ responseTimeout' = clearTimeout(responseTimeout)
            /\ responseWasSent' = TRUE
            /\ resCalls' = Call(500, "error_processing")
       ELSE UNCHANGED <<responseTimeout, responseWasSent, resCalls>>
  /\ UNCHANGED verdict

\* fs.promises.access resolves and compareImages returns before its first
\* await (no await of real work lies between: the answer follows at once)
CompareReturnsEarly ==
  /\ pc = "access"
  /\ compareStart(file.path, dir) # NoResult
  /\ Answer(compareStart(file.path, dir))
  /\ genuineFiles' = getImageFilesInDirectory(dir)
  /\ UNCHANGED <<dir, file, uploadTimeout, hints, copyError, probe, looksSameRun>>

\* fs.promises.access resolves and compareImages starts hashing
CompareStartsHashing ==
  /\ pc = "access"
  /\ compareStart(file.path, dir) = NoResult
  /\ genuineFiles' = getImageFilesInDirectory(dir)
  /\ pc' = "hashing"
  /\ UNCHANGED <<dir, file, uploadTimeout, responseTimeout, responseWasSent,
                 hints, result, verdict, resCalls, caught, copyError, probe, looksSameRun>>

\* compareImages finishes the hashing, the size comparison and the scoring
CompareFinishes ==
  /\ pc = "hashing"
  /\ \E statOk \in BOOLEAN :
       LET r == comparePixels(file.img, genuineFiles, dir, statOk)
       IN IF r.kind = "throw" THEN Catch(r) ELSE Answer(r)
  /\ UNCHANGED <<dir, file, uploadTimeout, hints, genuineFiles,
                 copyError, probe, looksSameRun>>

----------------------------------------------------------------------------
(* POST /add-genuine *)

\* genuineUpload stores the file in the genuine directory under its original
\* name.  The request is independent of the verification: it is taken
\* between two verifications or while one awaits (an addition during the
\* upload or after the answer is an addition between two verifications).
AddGenuine ==
  /\ pc \in {"idle", "access", "hashing"}
  /\ \E name \in ReferenceNames, img \in ReferenceImages :
       /\ (\E i \in 1..Len(dir) : dir[i].name = name) \/ Len(dir) < MaxCorpus
       /\ dir' = WriteFile(dir, name, img)
  /\ UNCHANGED <<pc, file, uploadTimeout, responseTimeout, responseWasSent,
                 hints, genuineFiles, result, verdict, resCalls,
                 caught, copyError, probe, looksSameRun>>

Next ==
  \/ ReceiveRequest
  \/ RequestEnds
  \/ UploadTimeoutFires
  \/ UploadFails
  \/ VerifyNoFile
  \/ VerifyNoReferences
  \/ VerifyStart
  \/ ResponseTimeoutFires
  \/ AccessFails
  \/ CompareReturnsEarly
  \/ CompareStartsHashing
  \/ CompareFinishes
  \/ AddGenuine

Spec == Init /\ [][Next]_vars

----------------------------------------------------------------------------
(* The size expression of compareImages taken alone *)

SizeInit ==
  /\ dir = <<>>
  /\ pc = "idle"
  /\ file = NoFile
  /\ uploadTimeout = "off"
  /\ responseTimeout = "off"
  /\ responseWasSent = FALSE
  /\ hints = NoHints
  /\ genuineFiles = <<>>
  /\ result = NoResult
  /\ verdict = NoVerdict
  /\ resCalls = <<>>
  /\ caught = FALSE
  /\ copyError = FALSE
  /\ probe \in [a : 0..MaxProbeSize, b : 0..MaxProbeSize, done : {FALSE},
                out : {Num(0)}]
  /\ looksSameRun = NoRun

ApplySizeSimilarity ==
  /\ ~probe.done
  /\ probe' = [probe EXCEPT !.done = TRUE, !.out = sizeSimilarity(probe.a, probe.b)]
  /\ UNCHANGED <<dir, pc, file, uploadTimeout, responseTimeout, responseWasSent,
                 hints, genuineFiles, result, verdict, resCalls, caught,
                 copyError, looksSameRun>>

SizeSpec == SizeInit /\ [][ApplySizeSimilarity]_vars

----------------------------------------------------------------------------
(* The looks-same variant of compareImages called twice on the same upload,
   the genuine directory unchanged between the calls *)

\* the genuine directories of at most MaxCorpus files, no name twice
Corpora ==
  UNION {{d \in [1..n -> [name : ReferenceNames, img : ReferenceImages]] :
            \A i, j \in 1..n : d[i].name = d[j].name => i = j} :
         n \in 0..MaxCorpus}

LooksSameInit ==
  /\ dir \in Corpora
  /\ pc = "idle"
  /\ file \in {ReqFile(Name_random_png, Suffix_1_2, img) : img \in UploadImages}
  /\ uploadTimeout = "off"
  /\ responseTimeout = "off"
  /\ responseWasSent = FALSE
  /\ hints = NoHints
  /\ genuineFiles = <<>>
  /\ result = NoResult
  /\ verdict = NoVerdict
  /\ resCalls = <<>>
  /\ caught = FALSE
  /\ copyError = FALSE
  /\ probe = NoProbe
  /\ looksSameRun = NoRun

\* one call compareImages(file.path, genuineDir) of the variant
CallCompareImagesLooksSame ==
  /\ looksSameRun.calls < 2
  /\ \E randomFloors \in [1..Len(getImageFilesInDirectory(dir)) -> RandomFloors] :
       LET r == compareImagesLooksSame(file.img, dir, randomFloors)
       IN looksSameRun' =
            IF looksSameRun.calls = 0
              THEN [looksSameRun EXCEPT !.calls = 1, !.first = r]
              ELSE [looksSameRun EXCEPT !.calls = 2, !.second = r]
  /\ UNCHANGED <<dir, pc, file, uploadTimeout, responseTimeout, responseWasSent,
                 hints, genuineFiles, result, verdict, resCalls, caught,
                 copyError, probe>>

LooksSameSpec == LooksSameInit /\ [][CallCompareImagesLooksSame]_vars

----------------------------------------------------------------------------
(* Properties *)

\* verifyDocument built a verdict (the body of a status-200 answer)
HasVerdict == verdict.kind = "verdict"

\* the request was answered with the verdict and with nothing else
Delivered == resCalls = <<[status |-> 200, body |-> "verdict", sent |-> TRUE]>>

\* the verdict comes from the comparison branch: the genuine directory listed
\* references and compareImages returned
Compared == HasVerdict /\ result.kind = "result"

\* the references compareImages listed whose lower-cased base name is b
SameBaseName(b) ==
  {i \in 1..Len(genuineFiles) : LowerBaseName(genuineFiles[i]) = b}

IsHundred(x) == NumEq(x, Num(100))
IsZero(x) == NumEq(x, Num(0))

\* C1: with references listed, an upload whose original name has the base
\* name of a reference gets the verdict genuine, similarity 100, bestMatch that
\* reference, whatever its pixels.  Stated for the requests in which no
\* exception was met, the verdict was delivered and no reference has the name
\* the upload is stored under.
C1_OriginalNameMatchIsGenuine ==
  (pc = "done" /\ Compared /\ Delivered /\ ~(result.error # "none")
     /\ SameBaseName(LowerBaseName(file.path)) = {}
     /\ SameBaseName(LowerBaseName(file.originalname)) # {})
    => /\ verdict.isGenuine
       /\ IsHundred(verdict.similarity)
       /\ \E i \in SameBaseName(LowerBaseName(file.originalname)) :
            verdict.bestMatch = genuineFiles[i]

\* C2: an exact-name match wins over the fraud signals.  Stated on the name
\* the exact-name check of compareImages reads (the base name of the stored
\* path): whenever a listed reference has it, the verdict is genuine with
\* similarity 100, fraud keyword or fraud path or not.
C2_ExactMatchBeatsFraudSignals ==
  (pc = "done" /\ Compared /\ Delivered /\ SameBaseName(LowerBaseName(file.path)) # {})
    => verdict.isGenuine /\ IsHundred(verdict.similarity)

\* the storage path contains one of the fraud markers
PathHasFraudMarker(path) ==
  \E m \in {Str_CopyPaste_Inter, Str_CopyPaste_Intra, Str_Imitation} :
    Includes(path, m)

\* C3: a verdict for an upload whose storage path contains a fraud marker is
\* forged: with or without references, whatever the file name and the pixels
\* (and also when a reference has the upload's name).
C3_FraudPathIsForged ==
  (HasVerdict /\ PathHasFraudMarker(file.path)) => ~verdict.isGenuine

C3_Witness ==
  /\ pc = "done" /\ Compared
  /\ PathHasFraudMarker(file.path)
  /\ hints.genuine
  /\ ~verdict.isGenuine

\* the original name contains "fraud", "fake" or "forg", in any case
NameHasFraudKeyword(originalname) ==
  \E k \in {Str_fraud, Str_fake, Str_forg} :
    Includes(ToLowerCase(originalname), k)

\* C4: an original name with "fraud", "fake" or "forg" sets fraudHint, and
\* with references listed and no reference of the upload's name (the original
\* one or the stored one) its verdict is forged with similarity 0.  Stated
\* for the requests in which no exception was met and the verdict was
\* delivered.
C4_FraudKeywordIsForged ==
  (pc = "done" /\ Compared /\ Delivered /\ ~(result.error # "none")
     /\ NameHasFraudKeyword(file.originalname)
     /\ SameBaseName(LowerBaseName(file.originalname)) = {}
     /\ SameBaseName(LowerBaseName(file.path)) = {})
    => hints.fraud /\ ~verdict.isGenuine /\ IsZero(verdict.similarity)

\* the verdict comes from the branch of an empty listing
Bootstrapped == HasVerdict /\ result.kind = "none"

\* C5: with an empty listing, an upload with a genuine hint and no fraud hint
\* gets the verdict genuine with similarity 100, and afterwards the listing of
\* the genuine directory is exactly the upload's original name.  Stated for
\* the requests in which fs.copyFileSync succeeded and the verdict was
\* delivered.
C5_FirstReferenceIsRegistered ==
  (pc = "done" /\ Bootstrapped /\ Delivered /\ ~copyError
     /\ hints.genuine /\ ~hints.fraud /\ ~hints.fraudPath)
    => /\ verdict.isGenuine
       /\ IsHundred(verdict.similarity)
       /\ getImageFilesInDirectory(dir) = <<file.originalname>>

PixelCompared == Compared /\ result.reason \in {"below", "high"}

ComparisonFailed == result.error # "none"

InRange(x) == NumGe(x, Num(0)) /\ NumGe(Num(100), x)

\* C9: the similarity of every result of compareImages and of every verdict
\* is a number from 0 to 100.
C9_SimilarityInRange ==
  /\ result.kind = "result" => InRange(result.similarity)
  /\ HasVerdict => InRange(verdict.similarity)

C9_Witness ==
  /\ pc = "done" /\ PixelCompared
  /\ NumGt(verdict.similarity, Num(0))
  /\ NumLt(verdict.similarity, Num(100))

C11_SameInputsSameResult ==
  looksSameRun.calls = 2
    => /\ looksSameRun.first.isForged = looksSameRun.second.isForged
       /\ looksSameRun.first.similarity = looksSameRun.second.similarity
       /\ looksSameRun.first.bestMatch = looksSameRun.second.bestMatch

\* a response of the upload receiver's own failure: the 408 of the upload
\* timer or the 400 of a MulterError (file over the limit)
UploadFailureAnswered ==
  \E i \in 1..Len(resCalls) :
    resCalls[i].body \in {"upload_timeout", "multer_error"}

\* verifyDocument was entered for the request (it sets its timer on entry)
VerifyDocumentInvoked == responseTimeout # "off"

\* C12: a request the upload receiver answered with its own error (408 after
\* the upload timer, 400 for a file over the limit) never enters
\* verifyDocument or compareImages, before or after that answer.
C12_UploadFailureNeverReachesEngine ==
  UploadFailureAnswered
    => /\ ~VerifyDocumentInvoked
       /\ pc \notin {"access", "hashing"}
       /\ result.kind = "none"
       /\ verdict.kind = "none"

\* C13: with references listed, a genuine hint alone never gives a genuine
\* verdict: a result the comparison flagged forged stays forged whatever the
\* hint, and every genuine verdict that is not an exact-name match comes from
\* a pixel comparison whose combined similarity is at least 80.
C13_HintNeverReplacesPixels ==
  Compared
    => /\ (hints.genuine /\ result.isForged) => ~verdict.isGenuine
       /\ (verdict.isGenuine /\ result.reason # "exact")
            => /\ result.reason = "high"
               /\ NumGe(result.similarity, Num(80))
               /\ NumGe(verdict.similarity, Num(80))

C13_Witness ==
  /\ pc = "done" /\ PixelCompared
  /\ hints.genuine /\ ~hints.fraud /\ ~hints.fraudPath
  /\ result.isForged
  /\ NumLt(verdict.similarity, Num(80))
  /\ ~verdict.isGenuine

\* the hash similarity of the upload and the i-th listed reference
HashSimilarityOf(i) ==
  calculateSimilarity(calculateImageHash(file.img),
                      calculateImageHash(dir[ContentOf(dir, genuineFiles[i])].img))

\* the first listed reference of maximum hash similarity
FirstMaximum ==
  CHOOSE i \in 1..Len(genuineFiles) :
    /\ \A j \in 1..Len(genuineFiles) : NumGe(HashSimilarityOf(i), HashSimilarityOf(j))
    /\ \A j \in 1..(i - 1) : NumGt(HashSimilarityOf(i), HashSimilarityOf(j))

\* the comparison hashed the upload and every listed reference, and read the
\* sizes without an error of the file system
HashedAll ==
  /\ pc = "done" /\ result.kind = "result"
  /\ result.reason \in {"below", "high", "error"}
  /\ result.error \notin {"decode", "stat"}

\* C14: the pixel comparison selects as bestMatch the listed reference of
\* maximum hash similarity, the first one on ties, and the combined score is
\* 0.7 times that reference's hash similarity plus 0.3 times the size
\* similarity with that reference's file; for every listing and every hash
\* similarities from 0 to 100.
C14_BestMatchIsFirstMaximum ==
  HashedAll
    => /\ result.bestMatch = genuineFiles[FirstMaximum]
       /\ result.similarity =
            finalSimilarity(
              HashSimilarityOf(FirstMaximum),
              sizeSimilarity(file.img.size,
                             dir[ContentOf(dir, genuineFiles[FirstMaximum])].img.size))

\* C15: the handlers of a POST /verify request call res.status(..).json(..)
\* at most once, whatever the order of the upload timer, the response timer,
\* the upload callback, the access check and the end of compareImages: no
\* second response is issued on a response object that already answered.
C15_AtMostOneResponse == Len(resCalls) <= 1

====
